---- MODULE Spec2Model ----
(***************************************************************************)
(* A model of backup.py: one run of main() - configuration, directory      *)
(* validation, creation of the archive and the catalog, the per-file       *)
(* pipeline of do_backup() (classify, stat, hash, archive, count, insert), *)
(* and the final tar.close() / insert_meta() / db.close().                 *)
(*                                                                         *)
(* The interpreter is Python 3 (shebang, time.perf_counter): IOError is    *)
(* OSError, and exception objects carry no `message` attribute.            *)
(***************************************************************************)
EXTENDS Integers, Sequences, FiniteSets, TLC

(***************************************************************************)
(* Bounds of the model.                                                    *)
(***************************************************************************)
\* longest list of input directories a configuration names
MaxInDirs == 2
\* largest st_size a stat may report
MaxSize == 1
\* how many times the script is run, one run after the other
MaxRuns == 2

(***************************************************************************)
(* class ErrorCodes(IntEnum)                                               *)
(***************************************************************************)
SUCCESS == 0
EXCL_EXT == 1
IO_ERROR == 2
TAR_ERROR == 3

error_codes ==
    { <<SUCCESS, "Success">>, <<EXCL_EXT, "Excluded extension">>,
      <<IO_ERROR, "IOError">>, <<TAR_ERROR, "TarError">> }

\* Python's None, and a value that is not None: an optional value is a set
\* of at most one element
None == {}
Some(x) == {x}
The(o) == CHOOSE x \in o : TRUE

(***************************************************************************)
(* The environment: a directory tree.  File names are sequences of         *)
(* characters so that the extension is computed, not looked up.            *)
(***************************************************************************)
NameT == <<"n", ".", "t">>
NameX == <<"m", ".", "x">>
NameHidden == <<".", "x">>

\* what os.walk finds in each directory of the tree: sub-directories, files
Tree ==
    ("a" :> [dirs |-> <<"a/b">>, files |-> <<NameT>>]) @@
    ("a/b" :> [dirs |-> <<>>, files |-> <<NameX, NameHidden>>]) @@
    ("c" :> [dirs |-> <<>>, files |-> <<NameT>>])

\* directories that exist (os.path.isdir)
IsDir(d) == d \in {"a", "a/b", "c", "locked", "out", "ro"}

\* os.access(d, perms), perms a subset of {"R", "W", "X"}
Access(d, perms) ==
    CASE d \in {"a", "a/b", "c", "out"} -> TRUE
      [] d = "ro" -> perms \subseteq {"R", "X"}
      [] OTHER -> FALSE

\* os.path.join(root, name): injective, kept as the pair
Join(root, name) == <<root, name>>

RECURSIVE ConcatAll(_)
ConcatAll(ss) == IF ss = <<>> THEN <<>> ELSE Head(ss) \o ConcatAll(Tail(ss))

\* os.walk(in_dir), top-down, flattened to the full paths of its files
RECURSIVE Walk(_)
Walk(d) ==
    [k \in 1..Len(Tree[d].files) |-> Join(d, Tree[d].files[k])]
    \o ConcatAll([k \in 1..Len(Tree[d].dirs) |-> Walk(Tree[d].dirs[k])])

(***************************************************************************)
(* os.path.splitext(name)[1][1:]                                           *)
(***************************************************************************)
\* rfind("."): the index of the last dot, 0 when there is none
LastDot(name) ==
    LET dots == {k \in 1..Len(name) : name[k] = "."}
    IN  IF dots = {} THEN 0 ELSE CHOOSE k \in dots : \A m \in dots : m <= k

\* the extension without its dot; leading dots do not start an extension
SplitExt(name) ==
    LET d == LastDot(name)
    IN  IF d > 0 /\ \E k \in 1..(d - 1) : name[k] # "."
        THEN SubSeq(name, d + 1, Len(name))
        ELSE <<>>

\* the extensions a configuration may list, as character sequences
ExtX == <<"x">>
ExtT == <<"t">>

(***************************************************************************)
(* Exceptions under Python 3.                                              *)
(***************************************************************************)
\* attributes an exception object of each class carries
ExcAttrs(cls) ==
    CASE cls = "OSError" -> {"args", "errno", "strerror", "filename"}
      [] cls = "TarError" -> {"args"}
      [] cls = "IntegrityError" -> {"args"}
      [] OTHER -> {"args"}

\* the attributes each handler's print() reads
StatHandlerReads == {"errno", "args", "message", "strerror"}
TarHandlerReads == {"args", "message"}
IntegrityHandlerReads == {"args"}

\* a handler returns normally iff every attribute it reads exists;
\* otherwise it raises AttributeError, which nothing catches
HandlerCompletes(reads, cls) == reads \subseteq ExcAttrs(cls)

\* `except IOError` (= OSError) around os.stat
StatExceptCatches(cls) == cls = "OSError"
\* `except tarfile.TarError` around tar.add
TarExceptCatches(cls) == cls = "TarError"

\* the exceptions tar.add can raise: the file vanished or cannot be read
\* (OSError), or tarfile rejects it (TarError)
TarAddFailures == {"OSError", "TarError"}

(***************************************************************************)
(* Configuration documents.                                                *)
(***************************************************************************)
InDirNames == {"a", "a/b", "gone", "locked"}
OutDirNames == {"out", "ro", "gone"}
ExtLists == { <<>>, <<ExtX>>, <<ExtX, ExtX>>, <<ExtT, ExtX>> }
Thresholds == {0, 1}

SeqsUpTo(S, n) == UNION {[1..k -> S] : k \in 0..n}

\* a document json.loads rejects
Malformed == [malformed |-> TRUE]
IsMalformed(doc) == "malformed" \in DOMAIN doc

ConfigDocs ==
    [name : {"bk"},
     inDirs : SeqsUpTo(InDirNames, MaxInDirs),
     outDir : OutDirNames,
     excludedExts : ExtLists,
     hashExcludedFilesMaxSize : Thresholds]

\* what os.stat may return for a file
StatResults ==
    [st_size : 0..MaxSize, st_atime : {15}, st_mtime : {27}]

\* int() of a time kept in tenths of a second
IntOf(t) == t \div 10

\* the clock counts half seconds; strftime("%y%m%d-%H%M%S") keeps whole
\* seconds only
TicksPerSecond == 2
StrfTime(t) == t \div TicksPerSecond

\* the instants a later run may start after the end of the one before
Gaps == {1, 2}

\* the configurations under which the script is run more than once
RunsConfigs ==
    [name : {"bk"},
     inDirs : {<<"c">>, <<"gone">>},
     outDir : {"out"},
     excludedExts : {<<>>},
     hashExcludedFilesMaxSize : {0}]
    \cup
    [name : {"bk"},
     inDirs : {<<"c", "c">>},
     outDir : {"out"},
     excludedExts : {<<ExtT>>},
     hashExcludedFilesMaxSize : {0}]
    \cup {Malformed}

VARIABLES
    config,                 \* the configuration document on disk
    pc,                     \* where main() stands
    exc,                    \* the exception that ended the process, or "none"
    tar_state,              \* "absent", "open", "closed"
    tar_members,            \* the paths added to the archive, in order
    db_state,               \* "absent", "open", "closed"
    file_table,             \* rows of `file`, in id order
    error_codes_table,
    in_dir_table,
    excluded_exts_table,
    meta_table,
    pos,                    \* how many discovered files the loop has taken
    file_status, file_stat, can_hash_file, hash_code, full_path,
    files_allowed, files_allowed_bytes, files_excluded,
    files_excluded_bytes, files_errored, files_hashed,
    sql_file_inserts, sql_file_insert_time, tar_add_time, hash_time,
    ctr_at_start,           \* history: the counters when the current file began
    env_log,                \* history: what stat, hash and tar.add did in this run
    now,                    \* the clock, in half seconds
    start_time,             \* datetime.now() at the start of main()
    disk,                   \* the archive/catalog pairs earlier runs left in out_dir
    history,                \* history: each earlier run as it ended
    run                     \* how many runs have started

locals == <<file_status, file_stat, can_hash_file, hash_code, full_path>>
counters ==
    <<files_allowed, files_allowed_bytes, files_excluded,
      files_excluded_bytes, files_errored, files_hashed,
      sql_file_inserts, sql_file_insert_time, tar_add_time, hash_time>>
tables ==
    <<file_table, error_codes_table, in_dir_table, excluded_exts_table,
      meta_table>>
outputs == <<tar_state, tar_members, db_state, tables>>
runs == <<now, start_time, disk, history, run>>
vars ==
    <<config, pc, exc, outputs, pos, locals, counters, ctr_at_start, env_log,
      runs>>

\* start_time.strftime("%y%m%d-%H%M%S"): the suffix of both file names
start_time_str == StrfTime(start_time)

\* main(): j["inDirs"] and the other fields read from the document
in_dirs == config.inDirs
out_dir == config.outDir
excluded_exts == config.excludedExts
hefms == config.hashExcludedFilesMaxSize

\* the files the two nested loops of do_backup visit, in order
Discovered == ConcatAll([i \in 1..Len(in_dirs) |-> Walk(in_dirs[i])])

Range(s) == {s[k] : k \in 1..Len(s)}

(***************************************************************************)
(* Decisions of the per-file pipeline.                                     *)
(***************************************************************************)
\* file_status after `if file_ext in excluded_exts`
Classify(name, exts) ==
    IF SplitExt(name) \in Range(exts) THEN EXCL_EXT ELSE SUCCESS

\* a slip in the comparison: a file of exactly the threshold is not hashed
CanHashStrict(status, size, threshold) ==
    (status = SUCCESS) \/ (size < threshold)

\* a slip that applies the threshold to every file, excluded or not
CanHashSmallOnly(status, size, threshold) == size <= threshold

\* the condition under which can_hash_file becomes True after a good stat
CanHash(status, size, threshold) ==
    (status = SUCCESS) \/ (size <= threshold)

\* a slip that archives whatever could be stat'ed
ShouldArchiveLoose(status) == status \in {SUCCESS, EXCL_EXT}

\* `if file_status == ErrorCodes.SUCCESS:` guarding tar.add
ShouldArchive(status) == status = SUCCESS

\* hash_file(full_path): the digest of the file's bytes
HashFile(path) == <<"sha256", path>>

\* the (size, date_accessed, date_modified) written for a stat result
RowMeta(stat) ==
    IF stat # None
    THEN [size |-> Some(The(stat).st_size),
          date_accessed |-> Some(IntOf(The(stat).st_atime)),
          date_modified |-> Some(IntOf(The(stat).st_mtime))]
    ELSE [size |-> None, date_accessed |-> None, date_modified |-> None]

\* a slip that binds no digest to the statement
FileRowDropsHash(path, stat, hash, status) ==
    [path |-> path,
     size |-> RowMeta(stat).size,
     date_accessed |-> RowMeta(stat).date_accessed,
     date_modified |-> RowMeta(stat).date_modified,
     hash |-> None,
     error_code |-> status]

\* the tuple bound to sqlite3_insert_file
FileRow(path, stat, hash, status) ==
    [path |-> path,
     size |-> RowMeta(stat).size,
     date_accessed |-> RowMeta(stat).date_accessed,
     date_modified |-> RowMeta(stat).date_modified,
     hash |-> hash,
     error_code |-> status]

\* `path` TEXT NOT NULL UNIQUE
PathInCatalog(path, table) == \E k \in 1..Len(table) : table[k].path = path

\* history: what the environment did to one call (size: st_size of a good
\* stat, else 0)
Logged(op, res, size) ==
    env_log' = Append(env_log, [op |-> op, res |-> res, size |-> size])

\* the process dies with an uncaught exception (or sys.exit): nothing
\* else is touched, open handles are never closed
Die(e) ==
    /\ pc' = "aborted"
    /\ exc' = e

(***************************************************************************)
(* Initial state: a configuration document on disk, nothing created.       *)
(***************************************************************************)
Fresh ==
    /\ pc = "load_config"
    /\ exc = "none"
    /\ tar_state = "absent"
    /\ tar_members = <<>>
    /\ db_state = "absent"
    /\ file_table = <<>>
    /\ error_codes_table = {}
    /\ in_dir_table = <<>>
    /\ excluded_exts_table = <<>>
    /\ meta_table = <<>>
    /\ pos = 0
    /\ file_status = SUCCESS
    /\ file_stat = None
    /\ can_hash_file = FALSE
    /\ hash_code = None
    /\ full_path = <<>>
    /\ files_allowed = 0
    /\ files_allowed_bytes = 0
    /\ files_excluded = 0
    /\ files_excluded_bytes = 0
    /\ files_errored = 0
    /\ files_hashed = 0
    /\ sql_file_inserts = 0
    /\ sql_file_insert_time = 0
    /\ tar_add_time = 0
    /\ hash_time = 0
    /\ ctr_at_start = counters
    /\ env_log = <<>>

\* the first run, at instant 0, in an output directory holding no earlier
\* archive or catalog
FirstRun ==
    /\ now = 0
    /\ start_time = 0
    /\ disk = {}
    /\ history = <<>>
    /\ run = 1

Init ==
    /\ config \in ConfigDocs \cup {Malformed}
    /\ Fresh
    /\ FirstRun

(***************************************************************************)
(* main(): before the traversal.                                           *)
(***************************************************************************)
\* json.loads(open(config).read()) and the five lookups
LoadConfig ==
    /\ UNCHANGED <<env_log, runs>>
    /\ pc = "load_config"
    /\ ~IsMalformed(config)
    /\ pc' = "validate"
    /\ UNCHANGED <<config, exc, outputs, pos, locals, counters, ctr_at_start>>

LoadConfigFails ==
    /\ UNCHANGED <<env_log, runs>>
    /\ pc = "load_config"
    /\ IsMalformed(config)
    /\ Die("ValueError")
    /\ UNCHANGED <<config, outputs, pos, locals, counters, ctr_at_start>>

\* validate_dir(d, perms) passes
DirValid(d, perms) == IsDir(d) /\ Access(d, perms)

\* a slip that asks of out_dir only what is asked of an input directory
AllDirsValidNoWrite ==
    /\ \A k \in 1..Len(in_dirs) : DirValid(in_dirs[k], {"R", "X"})
    /\ DirValid(out_dir, {"R", "X"})

AllDirsValid ==
    /\ \A k \in 1..Len(in_dirs) : DirValid(in_dirs[k], {"R", "X"})
    /\ DirValid(out_dir, {"R", "W", "X"})

\* validate_dirs(in_dirs); validate_dir(out_dir, R|W|X)
ValidateDirs ==
    /\ UNCHANGED <<env_log, runs>>
    /\ pc = "validate"
    /\ AllDirsValid
    /\ pc' = "create_tar"
    /\ UNCHANGED <<config, exc, outputs, pos, locals, counters, ctr_at_start>>

\* some validate_dir calls sys.exit(1)
ValidateDirsFails ==
    /\ UNCHANGED <<env_log, runs>>
    /\ pc = "validate"
    /\ ~AllDirsValid
    /\ Die("SystemExit")
    /\ UNCHANGED <<config, outputs, pos, locals, counters, ctr_at_start>>

\* create_tar(): tarfile.open(full_path, "w:bz2")
CreateTar ==
    /\ UNCHANGED <<env_log, runs>>
    /\ pc = "create_tar"
    /\ tar_state' = "open"
    /\ tar_members' = <<>>
    /\ pc' = "create_db"
    /\ UNCHANGED <<config, exc, db_state, tables, pos, locals, counters,
                   ctr_at_start>>

\* a slip that creates the tables without dropping them first: a catalog
\* file of the same name keeps its `file` rows
DbAgentInitKeepsRows ==
    /\ UNCHANGED <<env_log, runs>>
    /\ pc = "create_db"
    /\ db_state' = "open"
    /\ file_table' =
           IF \E e \in disk : e.stamp = start_time_str
           THEN (CHOOSE e \in disk : e.stamp = start_time_str).db[1]
           ELSE <<>>
    /\ error_codes_table' = {}
    /\ in_dir_table' = <<>>
    /\ excluded_exts_table' = <<>>
    /\ meta_table' = <<>>
    /\ pc' = "insert_error_codes"
    /\ UNCHANGED <<config, exc, tar_state, tar_members, pos, locals,
                   counters, ctr_at_start>>

\* DbAgent.__init__: connect, executescript(sqlite3_create_tables)
DbAgentInit ==
    /\ UNCHANGED <<env_log, runs>>
    /\ pc = "create_db"
    /\ db_state' = "open"
    /\ file_table' = <<>>
    /\ error_codes_table' = {}
    /\ in_dir_table' = <<>>
    /\ excluded_exts_table' = <<>>
    /\ meta_table' = <<>>
    /\ pc' = "insert_error_codes"
    /\ UNCHANGED <<config, exc, tar_state, tar_members, pos, locals,
                   counters, ctr_at_start>>

\* insert_error_codes(db)
InsertErrorCodes ==
    /\ UNCHANGED <<env_log, runs>>
    /\ pc = "insert_error_codes"
    /\ error_codes_table' = error_codes
    /\ pc' = "next_file"
    /\ UNCHANGED <<config, exc, tar_state, tar_members, db_state,
                   file_table, in_dir_table, excluded_exts_table,
                   meta_table, pos, locals, counters, ctr_at_start>>

(***************************************************************************)
(* do_backup(): one action per step of the loop body.                      *)
(***************************************************************************)
\* `for name in files:` takes the next file and resets the locals
NextFile ==
    /\ UNCHANGED <<env_log, runs>>
    /\ pc = "next_file"
    /\ pos < Len(Discovered)
    /\ pos' = pos + 1
    /\ full_path' = Discovered[pos + 1]
    /\ file_status' = Classify(Discovered[pos + 1][2], excluded_exts)
    /\ file_stat' = None
    /\ can_hash_file' = FALSE
    /\ hash_code' = None
    /\ ctr_at_start' = counters
    /\ pc' = "stat"
    /\ UNCHANGED <<config, exc, outputs, counters>>

\* the loops are exhausted: do_backup returns its counters to main
WalkDone ==
    /\ UNCHANGED <<env_log, runs>>
    /\ pc = "next_file"
    /\ pos = Len(Discovered)
    /\ pc' = "tar_close"
    /\ UNCHANGED <<config, exc, outputs, pos, locals, counters, ctr_at_start>>

\* os.stat(full_path) returns
StatOk ==
    /\ UNCHANGED runs
    /\ pc = "stat"
    /\ \E st \in StatResults :
        /\ Logged("stat", "ok", st.st_size)
        /\ file_stat' = Some(st)
        /\ can_hash_file' = CanHash(file_status, st.st_size, hefms)
    /\ pc' = "hash"
    /\ UNCHANGED <<config, exc, outputs, pos, file_status, hash_code,
                   full_path, counters, ctr_at_start>>

\* os.stat(full_path) raises OSError: the handler sets IO_ERROR and prints
StatFails ==
    /\ UNCHANGED runs
    /\ Logged("stat", "OSError", 0)
    /\ pc = "stat"
    /\ StatExceptCatches("OSError")
    /\ file_status' = IO_ERROR
    /\ IF HandlerCompletes(StatHandlerReads, "OSError")
       THEN pc' = "hash" /\ exc' = exc
       ELSE Die("AttributeError")
    /\ UNCHANGED <<config, outputs, pos, file_stat, can_hash_file,
                   hash_code, full_path, counters, ctr_at_start>>

\* `if can_hash_file:` and hash_file returns
HashOk ==
    /\ UNCHANGED runs
    /\ Logged("hash", "ok", 0)
    /\ pc = "hash"
    /\ can_hash_file
    /\ hash_code' = Some(HashFile(full_path))
    /\ files_hashed' = files_hashed + 1
    /\ hash_time' = hash_time + 1
    /\ pc' = "archive"
    /\ UNCHANGED <<config, exc, outputs, pos, file_status, file_stat,
                   can_hash_file, full_path, files_allowed,
                   files_allowed_bytes, files_excluded,
                   files_excluded_bytes, files_errored, sql_file_inserts,
                   sql_file_insert_time, tar_add_time, ctr_at_start>>

\* hash_file's open() or read() raises OSError: no handler encloses it
HashFails ==
    /\ UNCHANGED runs
    /\ Logged("hash", "OSError", 0)
    /\ pc = "hash"
    /\ can_hash_file
    /\ Die("OSError")
    /\ UNCHANGED <<config, outputs, pos, locals, counters, ctr_at_start>>

\* can_hash_file is False
HashSkip ==
    /\ UNCHANGED <<env_log, runs>>
    /\ pc = "hash"
    /\ ~can_hash_file
    /\ pc' = "archive"
    /\ UNCHANGED <<config, exc, outputs, pos, locals, counters, ctr_at_start>>

\* tar.add(full_path) returns
TarAddOk ==
    /\ UNCHANGED runs
    /\ Logged("tar.add", "ok", 0)
    /\ pc = "archive"
    /\ ShouldArchive(file_status)
    /\ tar_members' = Append(tar_members, full_path)
    /\ files_allowed' = files_allowed + 1
    /\ IF file_stat # None
       THEN /\ files_allowed_bytes' =
                   files_allowed_bytes + The(file_stat).st_size
            /\ tar_add_time' = tar_add_time + 1
            /\ pc' = "count"
            /\ exc' = exc
       ELSE /\ Die("AttributeError")
            /\ UNCHANGED <<files_allowed_bytes, tar_add_time>>
    /\ UNCHANGED <<config, tar_state, db_state, tables, pos, locals,
                   files_excluded, files_excluded_bytes, files_errored,
                   files_hashed, sql_file_inserts, sql_file_insert_time,
                   hash_time, ctr_at_start>>

\* tar.add(full_path) raises: only TarError is caught, and its handler
\* sets TAR_ERROR and prints
TarAddFails ==
    /\ UNCHANGED runs
    /\ pc = "archive"
    /\ ShouldArchive(file_status)
    /\ \E cls \in TarAddFailures :
        /\ Logged("tar.add", cls, 0)
        /\ IF TarExceptCatches(cls)
           THEN /\ file_status' = TAR_ERROR
                /\ IF HandlerCompletes(TarHandlerReads, cls)
                   THEN pc' = "count" /\ exc' = exc
                   ELSE Die("AttributeError")
           ELSE /\ Die(cls)
                /\ file_status' = file_status
    /\ UNCHANGED <<config, outputs, pos, file_stat, can_hash_file,
                   hash_code, full_path, counters, ctr_at_start>>

\* file_status is not SUCCESS: nothing is archived
TarSkip ==
    /\ UNCHANGED <<env_log, runs>>
    /\ pc = "archive"
    /\ ~ShouldArchive(file_status)
    /\ pc' = "count"
    /\ UNCHANGED <<config, exc, outputs, pos, locals, counters, ctr_at_start>>

\* a slip that writes `if` for `elif`: an excluded file is counted as
\* errored as well
CountNoElif ==
    /\ UNCHANGED <<env_log, runs>>
    /\ pc = "count"
    /\ files_excluded' =
           IF file_status = EXCL_EXT THEN files_excluded + 1
                                     ELSE files_excluded
    /\ files_excluded_bytes' =
           IF file_status = EXCL_EXT /\ file_stat # None
           THEN files_excluded_bytes + The(file_stat).st_size
           ELSE files_excluded_bytes
    /\ files_errored' =
           IF file_status # SUCCESS THEN files_errored + 1 ELSE files_errored
    /\ pc' = "insert"
    /\ UNCHANGED <<config, exc, outputs, pos, locals, files_allowed,
                   files_allowed_bytes, files_hashed, sql_file_inserts,
                   sql_file_insert_time, tar_add_time, hash_time,
                   ctr_at_start>>

\* the if/elif that counts excluded and errored files
Count ==
    /\ UNCHANGED <<env_log, runs>>
    /\ pc = "count"
    /\ IF file_status = EXCL_EXT
       THEN /\ files_excluded' = files_excluded + 1
            /\ files_errored' = files_errored
            /\ IF file_stat # None
               THEN /\ files_excluded_bytes' =
                           files_excluded_bytes + The(file_stat).st_size
                    /\ pc' = "insert"
                    /\ exc' = exc
               ELSE /\ Die("AttributeError")
                    /\ files_excluded_bytes' = files_excluded_bytes
       ELSE /\ files_errored' =
                   IF file_status # SUCCESS THEN files_errored + 1
                                            ELSE files_errored
            /\ pc' = "insert"
            /\ UNCHANGED <<exc, files_excluded, files_excluded_bytes>>
    /\ UNCHANGED <<config, outputs, pos, locals, files_allowed,
                   files_allowed_bytes, files_hashed, sql_file_inserts,
                   sql_file_insert_time, tar_add_time, hash_time,
                   ctr_at_start>>

\* cur.execute(sqlite3_insert_file, ...) succeeds
InsertFile ==
    /\ UNCHANGED <<env_log, runs>>
    /\ pc = "insert"
    /\ ~PathInCatalog(full_path, file_table)
    /\ file_table' =
           Append(file_table,
                  FileRow(full_path, file_stat, hash_code, file_status))
    /\ sql_file_inserts' = sql_file_inserts + 1
    /\ sql_file_insert_time' = sql_file_insert_time + 1
    /\ pc' = "next_file"
    /\ UNCHANGED <<config, exc, tar_state, tar_members, db_state,
                   error_codes_table, in_dir_table, excluded_exts_table,
                   meta_table, pos, locals, files_allowed,
                   files_allowed_bytes, files_excluded,
                   files_excluded_bytes, files_errored, files_hashed,
                   tar_add_time, hash_time, ctr_at_start>>

\* a slip that writes INSERT OR REPLACE: the row of the path is overwritten
InsertFileReplaces ==
    /\ UNCHANGED <<env_log, runs>>
    /\ pc = "insert"
    /\ PathInCatalog(full_path, file_table)
    /\ file_table' =
           [k \in 1..Len(file_table) |->
               IF file_table[k].path = full_path
               THEN FileRow(full_path, file_stat, hash_code, file_status)
               ELSE file_table[k]]
    /\ pc' = "next_file"
    /\ UNCHANGED <<config, exc, tar_state, tar_members, db_state,
                   error_codes_table, in_dir_table, excluded_exts_table,
                   meta_table, pos, locals, counters, ctr_at_start>>

\* the path is already in `file`: sqlite3.IntegrityError, caught and printed
InsertFileDuplicate ==
    /\ UNCHANGED <<env_log, runs>>
    /\ pc = "insert"
    /\ PathInCatalog(full_path, file_table)
    /\ IF HandlerCompletes(IntegrityHandlerReads, "IntegrityError")
       THEN pc' = "next_file" /\ exc' = exc
       ELSE Die("AttributeError")
    /\ UNCHANGED <<config, outputs, pos, locals, counters, ctr_at_start>>

(***************************************************************************)
(* main(): after the traversal.                                            *)
(***************************************************************************)
\* tar.close()
TarClose ==
    /\ UNCHANGED <<env_log, runs>>
    /\ pc = "tar_close"
    /\ tar_state' = "closed"
    /\ pc' = "insert_meta"
    /\ UNCHANGED <<config, exc, tar_members, db_state, tables, pos, locals,
                   counters, ctr_at_start>>

\* the index of the first element of s equal to an earlier one, else 0:
\* where executemany meets the UNIQUE constraint
FirstDup(s) ==
    LET dups == {k \in 1..Len(s) : \E m \in 1..(k - 1) : s[m] = s[k]}
    IN  IF dups = {} THEN 0 ELSE CHOOSE k \in dups : \A m \in dups : k <= m

\* the row bound to sqlite3_insert_meta
MetaRow ==
    [name |-> config.name, out_dir |-> out_dir,
     hash_excluded_files_max_size |-> hefms,
     files_allowed |-> files_allowed,
     files_allowed_bytes |-> files_allowed_bytes,
     files_excluded |-> files_excluded,
     files_excluded_bytes |-> files_excluded_bytes,
     files_errored |-> files_errored,
     files_hashed |-> files_hashed,
     sql_file_inserts |-> sql_file_inserts,
     sql_file_insert_time |-> sql_file_insert_time,
     tar_add_time |-> tar_add_time,
     hash_time |-> hash_time]

\* insert_meta(): the in_dir rows, the excluded_exts rows, the meta row
InsertMeta ==
    /\ UNCHANGED <<env_log, runs>>
    /\ pc = "insert_meta"
    /\ FirstDup(in_dirs) = 0
    /\ FirstDup(excluded_exts) = 0
    /\ in_dir_table' = in_dirs
    /\ excluded_exts_table' = excluded_exts
    /\ meta_table' = Append(meta_table, MetaRow)
    /\ pc' = "db_close"
    /\ UNCHANGED <<config, exc, tar_state, tar_members, db_state,
                   file_table, error_codes_table, pos, locals, counters,
                   ctr_at_start>>

\* a directory or an extension is listed twice: executemany raises
\* sqlite3.IntegrityError after the rows before the repeated one (each
\* statement commits on its own), and nothing catches it
InsertMetaFails ==
    /\ UNCHANGED <<env_log, runs>>
    /\ pc = "insert_meta"
    /\ FirstDup(in_dirs) # 0 \/ FirstDup(excluded_exts) # 0
    /\ IF FirstDup(in_dirs) # 0
       THEN /\ in_dir_table' = SubSeq(in_dirs, 1, FirstDup(in_dirs) - 1)
            /\ excluded_exts_table' = excluded_exts_table
       ELSE /\ in_dir_table' = in_dirs
            /\ excluded_exts_table' =
                   SubSeq(excluded_exts, 1, FirstDup(excluded_exts) - 1)
    /\ Die("IntegrityError")
    /\ UNCHANGED <<config, tar_state, tar_members, db_state, file_table,
                   error_codes_table, meta_table, pos, locals, counters,
                   ctr_at_start>>

\* db.close()
DbClose ==
    /\ UNCHANGED <<env_log, runs>>
    /\ pc = "db_close"
    /\ db_state' = "closed"
    /\ pc' = "done"
    /\ UNCHANGED <<config, exc, tar_state, tar_members, tables, pos,
                   locals, counters, ctr_at_start>>

Next ==
    \/ LoadConfig \/ LoadConfigFails
    \/ ValidateDirs \/ ValidateDirsFails
    \/ CreateTar \/ DbAgentInit \/ InsertErrorCodes
    \/ NextFile \/ WalkDone
    \/ StatOk \/ StatFails
    \/ HashOk \/ HashFails \/ HashSkip
    \/ TarAddOk \/ TarAddFails \/ TarSkip
    \/ Count
    \/ InsertFile \/ InsertFileDuplicate
    \/ TarClose \/ InsertMeta \/ InsertMetaFails \/ DbClose

Spec == Init /\ [][Next]_vars

(***************************************************************************)
(* The script run again, with the same configuration document.             *)
(***************************************************************************)
\* the counters that count files (the others total elapsed time)
FileCounts ==
    <<files_allowed, files_allowed_bytes, files_excluded,
      files_excluded_bytes, files_errored, files_hashed, sql_file_inserts>>

\* history: the run that has just ended
EndedRun ==
    [stamp |-> start_time_str,
     created |-> tar_state # "absent",
     tar |-> tar_members,
     db |-> tables,
     env |-> env_log,
     counts |-> FileCounts,
     ended |-> pc]

\* the process has ended and `python3 backup.py <config>` is started again:
\* the files of the ended run stay in out_dir under its names, and main()
\* reads the clock
Rerun ==
    /\ pc \in {"done", "aborted"}
    /\ run < MaxRuns
    /\ run' = run + 1
    /\ \E d \in Gaps :
        /\ now' = now + d
        /\ start_time' = now + d
    /\ history' = Append(history, EndedRun)
    /\ disk' =
           IF tar_state # "absent"
           THEN {e \in disk : e.stamp # start_time_str}
                \cup {[stamp |-> start_time_str, tar |-> tar_members,
                       db |-> tables]}
           ELSE disk
    /\ pc' = "load_config"
    /\ exc' = "none"
    /\ tar_state' = "absent"
    /\ db_state' = "absent"
    /\ error_codes_table' = {}
    /\ file_status' = SUCCESS
    /\ file_stat' = None
    /\ can_hash_file' = FALSE
    /\ hash_code' = None
    /\ full_path' = <<>>
    /\ tar_members' = <<>>
    /\ file_table' = <<>>
    /\ in_dir_table' = <<>>
    /\ excluded_exts_table' = <<>>
    /\ meta_table' = <<>>
    /\ env_log' = <<>>
    /\ pos' = 0
    /\ files_allowed' = 0
    /\ files_allowed_bytes' = 0
    /\ files_excluded' = 0
    /\ files_excluded_bytes' = 0
    /\ files_errored' = 0
    /\ files_hashed' = 0
    /\ sql_file_inserts' = 0
    /\ sql_file_insert_time' = 0
    /\ tar_add_time' = 0
    /\ hash_time' = 0
    /\ ctr_at_start' = <<0, 0, 0, 0, 0, 0, 0, 0, 0, 0>>
    /\ UNCHANGED config

RunsInit ==
    /\ config \in RunsConfigs
    /\ Fresh
    /\ FirstRun

RunsNext == Next \/ Rerun

RunsSpec == RunsInit /\ [][RunsNext]_vars

(***************************************************************************)
(* Vocabulary of the properties.                                           *)
(***************************************************************************)
Rows == 1..Len(file_table)
RowsWith(code) == {k \in Rows : file_table[k].error_code = code}
RowsOf(path) == {k \in Rows : file_table[k].path = path}

RECURSIVE SumSize(_)
SumSize(S) ==
    IF S = {} THEN 0
    ELSE LET k == CHOOSE x \in S : TRUE
         IN  (IF file_table[k].size = None THEN 0
              ELSE The(file_table[k].size)) + SumSize(S \ {k})

Archived == Range(tar_members)
PerFileSteps == {"stat", "hash", "archive", "count", "insert"}
RunEnded == pc \in {"done", "aborted"}
ExcludedName(path) == SplitExt(path[2]) \in Range(excluded_exts)

\* the counters a file's outcome decides
OutcomeCounters ==
    <<files_allowed, files_allowed_bytes, files_excluded,
      files_excluded_bytes, files_errored>>

(***************************************************************************)
(* C1 .. C10                                                               *)
(***************************************************************************)
\* C1: when the run has finished, files_allowed, files_excluded and
\* files_errored are the numbers of catalog rows with outcome Accepted,
\* ExcludedByExtension and ReadError-or-ArchiveError, and the two byte
\* totals are the sums of size over the Accepted and the excluded rows.
C1_CountersAreRowSums ==
    pc = "done" =>
        /\ files_allowed = Cardinality(RowsWith(SUCCESS))
        /\ files_excluded = Cardinality(RowsWith(EXCL_EXT))
        /\ files_errored =
               Cardinality(RowsWith(IO_ERROR)) + Cardinality(RowsWith(TAR_ERROR))
        /\ files_allowed_bytes = SumSize(RowsWith(SUCCESS))
        /\ files_excluded_bytes = SumSize(RowsWith(EXCL_EXT))

\* C2: a step in which the insert of the file record fails on a path the
\* catalog already holds leaves the outcome counters as they were when
\* that file began, and goes on to the next file.
C2_DuplicateCountsNothing ==
    [][ (pc = "insert" /\ PathInCatalog(full_path, file_table))
            => /\ OutcomeCounters' = SubSeq(ctr_at_start, 1, 5)
               /\ pc' = "next_file" ]_vars

\* C3: no step of the per-file pipeline ends the process: from stat, hash,
\* archive, count and insert the run always goes on.
C3_NoPerFileStepIsFatal ==
    [][ (pc \in PerFileSteps) => (pc' # "aborted") ]_vars

\* C4: once a file whose stat failed has left the pipeline (the next file
\* has begun, or the run has ended), the catalog holds a row for its path
\* with outcome ReadError and no size, times or digest, and the archive
\* does not hold the path.
C4_StatFailureIsRecorded ==
    (file_status = IO_ERROR /\ file_stat = None /\ pc \notin PerFileSteps)
        => /\ \E k \in RowsOf(full_path) :
                /\ file_table[k].error_code = IO_ERROR
                /\ file_table[k].size = None
                /\ file_table[k].date_accessed = None
                /\ file_table[k].date_modified = None
                /\ file_table[k].hash = None
           /\ full_path \notin Archived
           /\ pc # "aborted"

\* C5: when the run has ended, normally or not, the paths in the archive
\* are exactly the paths whose catalog row has outcome Accepted.
C5_ArchiveIsTheAcceptedRows ==
    RunEnded =>
        Archived = {file_table[k].path : k \in RowsWith(SUCCESS)}

\* C5 witness: a run ended by a failed append of a path whose earlier
\* append, in the same run, had succeeded.
C5_Witness ==
    /\ pc = "aborted"
    /\ exc \in {"OSError", "AttributeError"}
    /\ hash_code # None
    /\ file_status \in {SUCCESS, TAR_ERROR}
    /\ full_path \in Archived
    /\ RowsWith(EXCL_EXT) # {}

\* C6: when the record of a file with an excluded extension and a good
\* stat is persisted, its digest is present exactly when its size is at
\* most the threshold, the catalog row of its path has outcome
\* ExcludedByExtension with the digest present exactly when the row's size
\* is at most the threshold, and the archive does not hold the path.
C6_ExcludedRow ==
    [][ (pc = "insert" /\ ExcludedName(full_path) /\ file_stat # None)
            => /\ (hash_code # None) <=> (The(file_stat).st_size <= hefms)
               /\ RowsOf(full_path)' # {}
               /\ \A k \in RowsOf(full_path)' :
                    /\ file_table'[k].error_code = EXCL_EXT
                    /\ (file_table'[k].hash # None)
                           <=> (The(file_table'[k].size) <= hefms)
               /\ full_path \notin Archived' ]_vars

\* C6 witness: a finished run with one excluded row of exactly the
\* threshold, hashed, and one excluded row a byte larger, not hashed.
C6_Witness ==
    /\ pc = "done"
    /\ \E k \in RowsWith(EXCL_EXT) :
          file_table[k].size = Some(hefms) /\ file_table[k].hash # None
    /\ \E k \in RowsWith(EXCL_EXT) :
          file_table[k].size = Some(hefms + 1) /\ file_table[k].hash = None
    /\ Archived # {}

\* C7: when the record of a file with a non-excluded extension whose stat
\* and append succeeded is persisted, the catalog row of its path has
\* outcome Accepted with digest, size and both times present, the archive
\* holds the path, and since the file began files_allowed has grown by 1
\* and files_allowed_bytes by the stat size.
C7_AcceptedRow ==
    [][ (pc = "insert" /\ ~ExcludedName(full_path) /\ file_stat # None
            /\ file_status = SUCCESS)
            => /\ RowsOf(full_path)' # {}
               /\ \A k \in RowsOf(full_path)' :
                    /\ file_table'[k].error_code = SUCCESS
                    /\ file_table'[k].hash # None
                    /\ file_table'[k].size # None
                    /\ file_table'[k].date_accessed # None
                    /\ file_table'[k].date_modified # None
               /\ hash_code # None
               /\ full_path \in Archived'
               /\ files_allowed' = ctr_at_start[1] + 1
               /\ files_allowed_bytes' =
                      ctr_at_start[2] + The(file_stat).st_size ]_vars

\* C7 witness: an Accepted row larger than the threshold, with its digest,
\* whose path is in the archive.
C7_Witness ==
    \E k \in RowsWith(SUCCESS) :
        /\ The(file_table[k].size) > hefms
        /\ file_table[k].hash # None
        /\ file_table[k].path \in Archived
        /\ files_allowed_bytes > 0

\* C8: when the run has ended, normally or not, every path the traversal
\* has taken has exactly one row in `file`, and every row's outcome code
\* is one of the four codes.
C8_OneRowPerDiscoveredPath ==
    RunEnded =>
        /\ \A i \in 1..pos : Cardinality(RowsOf(Discovered[i])) = 1
        /\ \A k \in Rows :
              file_table[k].error_code \in {SUCCESS, EXCL_EXT, IO_ERROR, TAR_ERROR}

\* C9: a step in which the append of an Accepted file fails turns the
\* outcome into ArchiveError, leaves the archive as it was and goes on
\* to count and record the file.
C9_ArchiveFailureIsRecorded ==
    [][ (pc = "archive" /\ ShouldArchive(file_status)
            /\ Len(tar_members') = Len(tar_members))
            => /\ file_status' = TAR_ERROR
               /\ tar_members' = tar_members
               /\ pc' = "count" ]_vars

\* C10: a step in which computing the digest fails turns the outcome into
\* ReadError, records no digest and goes on (without archiving the file).
C10_HashFailureIsReadError ==
    [][ (pc = "hash" /\ can_hash_file /\ hash_code' = None)
            => /\ file_status' = IO_ERROR
               /\ pc' \in {"archive", "count"} ]_vars

(***************************************************************************)
(* Vocabulary of C11 .. C20                                                *)
(***************************************************************************)
\* the configuration cannot be read, or a directory it names is missing
\* or lacks the permissions asked of it
BadConfiguration ==
    IF IsMalformed(config) THEN TRUE
    ELSE \/ \E k \in 1..Len(in_dirs) :
               ~(IsDir(in_dirs[k]) /\ Access(in_dirs[k], {"R", "X"}))
         \/ ~(IsDir(out_dir) /\ Access(out_dir, {"R", "W", "X"}))

\* the archive and the catalog now under the names of a given stamp: the
\* files this run has created under that stamp, else what an earlier run
\* left there
FilesAt(stamp) ==
    LET left == CHOOSE e \in disk : e.stamp = stamp
    IN  [tar |-> IF stamp = start_time_str /\ tar_state # "absent"
                 THEN tar_members ELSE left.tar,
         db |-> IF stamp = start_time_str /\ db_state # "absent"
                THEN tables ELSE left.db]

\* per path: the outcome code and whether a digest is present
Outcomes(table) ==
    { <<table[k].path, table[k].error_code, table[k].hash # None>> :
          k \in 1..Len(table) }

\* the traversal returned: the run reached insert_meta
TraversalCompleted ==
    pc = "done" \/ (pc = "aborted" /\ exc = "IntegrityError")

NoRepeats(s) == Cardinality(Range(s)) = Len(s)

DigestsComputed ==
    Cardinality({i \in 1..Len(env_log) :
                    env_log[i].op = "hash" /\ env_log[i].res = "ok"})

(***************************************************************************)
(* C11 .. C20                                                              *)
(***************************************************************************)
\* C11: a run whose configuration cannot be read, or names a missing or
\* inaccessible input or output directory, never gets past validation,
\* ends only by ValueError or sys.exit (exit status not 0), and in none of
\* its states does an archive or a catalog exist.
C11_BadConfigurationCreatesNothing ==
    BadConfiguration =>
        /\ tar_state = "absent"
        /\ db_state = "absent"
        /\ pc \in {"load_config", "validate", "aborted"}
        /\ pc = "aborted" => exc \in {"ValueError", "SystemExit"}

\* C11 witness: a run ended by sys.exit because its output directory,
\* the only bad directory, is not writable.
C11_Witness ==
    /\ pc = "aborted"
    /\ exc = "SystemExit"
    /\ ~IsMalformed(config)
    /\ out_dir = "ro"
    /\ Len(in_dirs) > 0
    /\ \A k \in 1..Len(in_dirs) : DirValid(in_dirs[k], {"R", "X"})
    /\ tar_state = "absent"

\* C12: the archive and the catalog of every earlier run that finished
\* are, at every later moment, as that run left them.
C12_EarlierRunsUntouched ==
    \A i \in 1..Len(history) :
        (history[i].created /\ history[i].ended = "done") =>
            FilesAt(history[i].stamp) =
                [tar |-> history[i].tar, db |-> history[i].db]

\* C13: when the traversal of a run has completed and the run has ended,
\* `meta` holds exactly one row, with the final counters, `in_dir` one
\* row per configured directory and `excluded_exts` one row per configured
\* extension, whatever the configuration repeats.
C13_RunRowAndPolicyRecorded ==
    TraversalCompleted =>
        /\ Len(meta_table) = 1
        /\ meta_table[1].files_allowed = files_allowed
        /\ meta_table[1].files_excluded = files_excluded
        /\ meta_table[1].files_errored = files_errored
        /\ Range(in_dir_table) = Range(in_dirs)
        /\ NoRepeats(in_dir_table)
        /\ Range(excluded_exts_table) = Range(excluded_exts)
        /\ NoRepeats(excluded_exts_table)

\* C14: a run that has ended, and an earlier run of the same configuration
\* in which stat, hash and tar.add behaved the same, ended the same way
\* with the same file counters and, per path, the same outcome code and
\* the same presence of a digest.
C14_SameRunsSameResults ==
    RunEnded =>
        \A i \in 1..Len(history) :
            history[i].env = env_log =>
                /\ history[i].ended = pc
                /\ history[i].counts = FileCounts
                /\ Outcomes(history[i].db[1]) = Outcomes(file_table)

\* C14 witness: two finished runs under different start-time stamps, with
\* the same environment behaviour, each having archived a file.
C14_Witness ==
    /\ pc = "done"
    /\ files_allowed > 0
    /\ \E i \in 1..Len(history) :
          /\ history[i].env = env_log
          /\ history[i].ended = "done"
          /\ history[i].stamp # start_time_str

\* C15: a run that created the archive and has ended has closed it; the
\* run row is recorded only with the archive closed, no file is processed
\* with the archive closed, and the catalog is closed only with the run row
\* recorded.
C15_ArchiveClosedOnceInOrder ==
    /\ (RunEnded /\ tar_state # "absent") => tar_state = "closed"
    /\ meta_table # <<>> => tar_state = "closed"
    /\ tar_state = "closed" => pc \notin PerFileSteps \cup {"next_file"}
    /\ db_state = "closed" => meta_table # <<>>

\* C16: whenever the stat of a file begins, every file taken before it has
\* a row in `file`; and no step removes or changes a row of `file`.
C16_OneFileAtATime ==
    [][ /\ (pc' = "stat") =>
               (\A i \in 1..(pos' - 1) : RowsOf(Discovered[i])' # {})
        /\ Len(file_table') >= Len(file_table)
        /\ \A k \in 1..Len(file_table) : file_table'[k] = file_table[k]
      ]_vars

\* C16 witness: the stat of a file begins after a file that was reached a
\* second time (so fewer rows than files taken before it).
C16_Witness ==
    /\ pc = "stat"
    /\ pos >= 2
    /\ Len(file_table) < pos - 1

\* C17: once a file whose append failed with outcome ArchiveError has left
\* the pipeline, files_allowed, files_allowed_bytes and tar_add_time are
\* what they were when the file began, and files_errored is one more.
C17_FailedAppendCountsAsError ==
    (file_status = TAR_ERROR /\ pc \notin PerFileSteps) =>
        /\ files_allowed = ctr_at_start[1]
        /\ files_allowed_bytes = ctr_at_start[2]
        /\ tar_add_time = ctr_at_start[9]
        /\ files_errored = ctr_at_start[5] + 1

\* C18: between files, and after the traversal, the three outcome counters
\* add up to the number of file occurrences taken.
C18_OutcomeCountersPartition ==
    pc \notin (PerFileSteps \ {"insert"}) \cup {"aborted"} =>
        files_allowed + files_excluded + files_errored = pos

\* C18 witness: a finished run that met a path twice and counted both
\* accepted and excluded files.
C18_Witness ==
    /\ pc = "done"
    /\ pos > Len(file_table)
    /\ files_allowed > 0
    /\ files_excluded > 0

\* C19: the archive step with outcome Accepted and the counter step with
\* outcome ExcludedByExtension are reached only with a stat result; and
\* once an excluded-extension file whose stat failed has left the pipeline,
\* it has added 1 to files_errored and nothing to files_excluded and
\* files_excluded_bytes.
C19_StatResultNeverUsedAbsent ==
    /\ (pc = "archive" /\ file_status = SUCCESS) => file_stat # None
    /\ (pc = "count" /\ file_status = EXCL_EXT) => file_stat # None
    /\ (file_status = IO_ERROR /\ file_stat = None /\ pc \notin PerFileSteps
            /\ ExcludedName(full_path))
           => /\ files_errored = ctr_at_start[5] + 1
              /\ files_excluded = ctr_at_start[3]
              /\ files_excluded_bytes = ctr_at_start[4]

\* C20: every row of `file` has a digest exactly when it has a size (the
\* stat succeeded) and its extension is not excluded or its size is at
\* most the threshold; every Accepted and every ArchiveError row has a
\* digest and a size; and files_hashed is the number of digests computed.
C20_DigestPresence ==
    /\ \A k \in Rows :
          (file_table[k].hash # None)
              <=> /\ file_table[k].size # None
                  /\ \/ ~ExcludedName(file_table[k].path)
                     \/ The(file_table[k].size) <= hefms
    /\ \A k \in RowsWith(SUCCESS) \cup RowsWith(TAR_ERROR) :
          file_table[k].hash # None /\ file_table[k].size # None
    /\ files_hashed = DigestsComputed

\* C20 witness: a finished run with a row without digest, a row with one,
\* and more digests computed than rows with a digest (a path hashed twice).
C20_Witness ==
    /\ pc = "done"
    /\ \E k \in Rows : file_table[k].hash = None
    /\ files_hashed > Cardinality({k \in Rows : file_table[k].hash # None})
    /\ Cardinality({k \in Rows : file_table[k].hash # None}) > 0

====
